---- MODULE Spec2Model ----
(***************************************************************************)
(* A model of gui.go: the RedisGli terminal browser.  The state is the     *)
(* RedisGli object (focus ring, cursor, panels, command lock), the output  *)
(* channel, the toolkit's update queue and the position of every           *)
(* execution context: the UI event loop, the drain/ticker goroutine, the   *)
(* startup goroutine and the command goroutines.                           *)
(*                                                                         *)
(* The UI event loop is one thread.  A key handler or a queued update runs *)
(* on it from start to end; the only places where another goroutine can    *)
(* observe it half-way are the points where it waits: a store call         *)
(* (ui.pc = "call") and a send on outputChan (ui.pc = "send").  The model  *)
(* therefore cuts every handler exactly at those points.                   *)
(***************************************************************************)
EXTENDS Integers, Sequences, FiniteSets, TLC

\* ---------------------------------------------------------------- bounds
\* capacity of outputChan, which NewRedisGli is handed by its caller
ChanCap == 1
\* capacity of the toolkit's queue of update functions
QueueSize == 2
\* external events (key presses and ticks of the ticker) in a run
MaxEvents == 3
\* presses of switch_focus in a row, enough for a full turn of the longest ring
MaxSwitches == 7

VARIABLES
    config,               \* config.Debug
    app,                  \* "new", "running", "stopped", "panic"
    focusPrimitives,      \* the focus ring: sequence of [Primitive, Key]
    currentFocusIndex,    \* 0-based cursor into the ring
    focus,                \* the primitive that holds UI focus
    commandMode,
    rightPanel,           \* items of the right-hand flex, in order
    mainPanel,            \* [items, border]: the key-detail panel
    mainStringView,       \* [text, title]
    mainHashView,         \* [items]
    mainListView,         \* [items, secondary]
    metaPanel,            \* text of the meta surface
    keyItemsPanel,        \* items of the key list
    summaryPanel,
    helpServerInfoPanel,  \* status text of the help surface
    outputPanel,          \* the visible feed: sequence of OutputMessage
    locked,               \* the command lock of createCommandPanel
    commandFormText,      \* text of the command input
    commandResultPanel,   \* text of the command result view
    alertPage,            \* the "alert" page is on the page stack
    outputChan,           \* messages in flight
    updates,              \* the toolkit's queue of update functions
    ui,                   \* position of the UI event loop
    drain,                \* position of the drain/ticker goroutine
    startupGo,            \* the goroutine of Start, line 203
    cmdGo,                \* command goroutines that have not queued yet
    keyCount,             \* key events dispatched so far
    tickCount,            \* ticks fired so far
    event,                \* last resolution of SearchKey: [key, name]
    lastSelection,        \* last key selection: [key, type, result, src]
    accepted,             \* submissions that passed the lock check, in order
    rejected,             \* submissions refused by the lock check
    executed,             \* submissions run against the store, in order
    sent,                 \* every message put on outputChan, in order
    commandToggles,       \* "command" actions dispatched so far, modulo 2
    infoReply,            \* last reply of RedisServerInfo: [src, result]
    switchRun             \* a run of switch_focus presses: [from, presses]

ringV   == <<focusPrimitives, currentFocusIndex, focus>>
modeV   == <<commandMode, rightPanel, commandToggles>>
detailV == <<mainPanel, mainStringView, mainHashView, mainListView, lastSelection>>
keysV   == <<keyItemsPanel, summaryPanel>>
cmdV    == <<locked, commandFormText, commandResultPanel, alertPage, cmdGo,
             accepted, rejected, executed>>
countV  == <<keyCount, tickCount, config>>
ghostV  == <<event, sent, infoReply, switchRun>>

vars == <<config, app, focusPrimitives, currentFocusIndex, focus, commandMode,
          rightPanel, mainPanel, mainStringView, mainHashView, mainListView,
          metaPanel, keyItemsPanel, summaryPanel, helpServerInfoPanel,
          outputPanel, locked, commandFormText, commandResultPanel, alertPage,
          outputChan, updates, ui, drain, startupGo, cmdGo, keyCount,
          tickCount, event, lastSelection, accepted, rejected, executed, sent,
          commandToggles, infoReply, switchRun>>

\* ----------------------------------------------------------- key bindings
keyBindings ==
    [search           |-> <<"F2", "CtrlS">>,
     keys             |-> <<"F3", "CtrlK">>,
     key_list_value   |-> <<"F6", "CtrlY">>,
     key_string_value |-> <<"F7", "CtrlA">>,
     key_hash         |-> <<"F6", "CtrlY">>,
     output           |-> <<"F9", "CtrlO">>,
     command          |-> <<"F1", "CtrlN">>,
     command_focus    |-> <<"F4", "CtrlF">>,
     command_result   |-> <<"F5", "CtrlR">>,
     quit             |-> <<"Esc", "CtrlQ">>,
     switch_focus     |-> <<"Tab">>]

Range(s) == {s[i] : i \in 1..Len(s)}

BoundCodes == UNION {Range(keyBindings[a]) : a \in DOMAIN keyBindings}

\* The physical keys the model presses: the first code of every action (the
\* second code of an action is dispatched exactly like its first), Enter and
\* a rune.
EventKeys == {keyBindings[a][1] : a \in DOMAIN keyBindings} \cup {"Enter", "Rune"}

\* SearchKey ranges over a Go map, whose iteration order is unspecified: it
\* returns the first name met whose codes hold k, so any of the names that
\* hold k can be the result; "" when none does.
SearchKey(k) ==
    LET hits == {name \in DOMAIN keyBindings : k \in Range(keyBindings[name])}
    IN  IF hits = {} THEN {""} ELSE hits

KeyID(key) == key

Keys(key) == keyBindings[key]

\* ------------------------------------------------------------- primitives
primitiveKey(p, k) == [Primitive |-> p, Key |-> k]

DetailViews == {"mainStringView", "mainHashView", "mainListView"}

\* An OutputMessage: its colour, the format of its text (the arguments of
\* the format are left out) and src, the event it reports on: the number of
\* the key event, 0 for the startup load, -t for tick t.  A completion
\* message of a command carries the number of the submitting key event.
OutputMessage(color, message, src) ==
    [Color |-> color, Message |-> message, src |-> src]

\* The UI event loop: idle, waiting for the store ("call") or waiting to send
\* on outputChan ("send").  op names the place in the code, key the key code
\* of the event being dispatched, arg the handler's argument, src the event
\* the work stems from.
UIIdle == [pc |-> "idle", op |-> "", key |-> "", arg |-> "", src |-> 0, out |-> <<>>]

\* A step of the event loop runs a handler up to the next point where it
\* has to wait.  c is the content of outputChan after the sends the step has
\* made so far.
Done(c) ==
    /\ ui' = UIIdle
    /\ outputChan' = c

CallStore(op, arg, src, c) ==
    /\ ui' = [pc |-> "call", op |-> op, key |-> "", arg |-> arg, src |-> src, out |-> <<>>]
    /\ outputChan' = c

\* gli.outputChan <- msg: with room in the channel the send is made and the
\* handler goes on; without, the event loop waits at the send: op, key and
\* arg say where the handler goes on from once the send is made.
CanSend(c) == Len(c) < ChanCap

WaitSend(c, msg, op, key, arg) ==
    /\ ui' = [pc |-> "send", op |-> op, key |-> key, arg |-> arg,
              src |-> msg.src, out |-> <<msg>>]
    /\ outputChan' = c

\* filter is the function from the items to what the Go filter returns
primitivesFilter(items, filter) == SelectSeq(items, LAMBDA item : filter[item])

\* redrawRightPanel without line 263: the command panel is not removed.
redrawRightPanelKeepCommand(rp, center) ==
    LET gone == {"metaPanel", "outputPanel", "mainPanel", "helpPanel"}
        rest == SelectSeq(rp, LAMBDA x : x \notin gone)
    IN  rest \o <<"helpPanel", "metaPanel", center, "outputPanel">>

redrawRightPanel(rp, center) ==
    LET gone == {"metaPanel", "outputPanel", "mainPanel", "commandPanel", "helpPanel"}
        rest == SelectSeq(rp, LAMBDA x : x \notin gone)
    IN  rest \o <<"helpPanel", "metaPanel", center, "outputPanel">>

keyItemsFormat(index, key) == <<index + 1, key>>

\* ------------------------------------------------------------------- Init
Init ==
    /\ config \in {[Debug |-> FALSE], [Debug |-> TRUE]}
    /\ app = "new"
    /\ focusPrimitives =
         << primitiveKey("outputPanel", KeyID("output")),
            primitiveKey("commandFormPanel", KeyID("command_focus")),
            primitiveKey("commandResultPanel", KeyID("command_result")),
            primitiveKey("searchPanel", KeyID("search")),
            primitiveKey("keyItemsPanel", KeyID("keys")) >>
    /\ currentFocusIndex = 0
    /\ focus = "none"
    /\ commandMode = FALSE
    /\ rightPanel = redrawRightPanel(<<>>, "mainPanel")
    /\ mainPanel = [items |-> <<"welcomeScreen">>, border |-> TRUE]
    /\ mainStringView = [text |-> <<>>, title |-> "Value"]
    /\ mainHashView = [items |-> <<>>]
    /\ mainListView = [items |-> <<>>, secondary |-> FALSE]
    /\ metaPanel = <<>>
    /\ keyItemsPanel = <<>>
    /\ summaryPanel = <<>>
    /\ helpServerInfoPanel = ""
    /\ outputPanel = <<>>
    /\ locked = FALSE
    /\ commandFormText = ""
    /\ commandResultPanel = <<>>
    /\ alertPage = FALSE
    /\ outputChan = <<>>
    /\ updates = <<>>
    /\ ui = UIIdle
    /\ drain = [pc |-> "none", f |-> "", out |-> <<>>, src |-> 0]
    /\ startupGo = "none"
    /\ cmdGo = <<>>
    /\ keyCount = 0
    /\ tickCount = 0
    /\ event = [key |-> "", name |-> ""]
    /\ lastSelection = [key |-> "", type |-> "", result |-> "none", src |-> 0]
    /\ accepted = <<>>
    /\ rejected = {}
    /\ executed = <<>>
    /\ sent = <<>>
    /\ commandToggles = 0
    /\ infoReply = [src |-> 0, result |-> "none"]
    /\ switchRun = [from |-> 0, presses |-> 0]

\* ------------------------------------------------- global input capture
\* the wrap test of line 158 compared against the ring's length
NextFocusIndexPastEnd(cur, len) ==
    IF cur + 1 > len THEN 0 ELSE cur + 1

NextFocusIndex(cur, len) ==
    IF cur + 1 > len - 1 THEN 0 ELSE cur + 1

\* case "switch_focus": the event is consumed.  An index outside the ring
\* is a run-time panic of the process.
SwitchFocus(c) ==
    LET nextFocusIndex == NextFocusIndex(currentFocusIndex, Len(focusPrimitives))
    IN  /\ IF nextFocusIndex < Len(focusPrimitives)
              THEN /\ focus' = focusPrimitives[nextFocusIndex + 1].Primitive
                   /\ currentFocusIndex' = nextFocusIndex
                   /\ app' = app
              ELSE /\ app' = "panic"
                   /\ UNCHANGED <<focus, currentFocusIndex>>
        /\ Done(c)
        /\ UNCHANGED <<focusPrimitives, modeV, detailV, metaPanel, keysV,
                       helpServerInfoPanel, outputPanel, cmdV>>

\* case "quit"
Quit(c) ==
    /\ app' = "stopped"
    /\ Done(c)
    /\ UNCHANGED <<ringV, modeV, detailV, metaPanel, keysV,
                   helpServerInfoPanel, outputPanel, cmdV>>

\* case "command": when turning on, the loop has no break and the cursor is
\* set for every ring entry whose primitive is the command input.
Command(c) ==
    /\ commandToggles' = (commandToggles + 1) % 2
    /\ IF commandMode
          THEN /\ commandMode' = FALSE
               /\ rightPanel' = redrawRightPanel(rightPanel, "mainPanel")
               /\ focus' = "searchPanel"
               /\ currentFocusIndex' = 0
          ELSE LET at == {i \in 1..Len(focusPrimitives) :
                            focusPrimitives[i].Primitive = "commandFormPanel"}
               IN  /\ commandMode' = TRUE
                   /\ rightPanel' = redrawRightPanel(rightPanel, "commandPanel")
                   /\ IF at = {}
                         THEN UNCHANGED <<focus, currentFocusIndex>>
                         ELSE /\ focus' = "commandFormPanel"
                              /\ currentFocusIndex' =
                                   (CHOOSE i \in at : \A j \in at : j <= i) - 1
    /\ Done(c)
    /\ UNCHANGED <<focusPrimitives, app, detailV, metaPanel, keysV,
                   helpServerInfoPanel, outputPanel, cmdV>>

\* JumpFocus without line 189: the cursor moves, the focus does not.
JumpFocusCursorOnly(name, c) ==
    LET at == {i \in 1..Len(focusPrimitives) : focusPrimitives[i].Key = name}
        i  == CHOOSE i \in at : \A j \in at : i <= j
    IN  /\ at # {}
        /\ currentFocusIndex' = i - 1
        /\ Done(c)
        /\ UNCHANGED <<focusPrimitives, focus, app, modeV, detailV, metaPanel, keysV,
                       helpServerInfoPanel, outputPanel, cmdV>>

\* default: jump to the first ring entry registered under the action name.
JumpFocus(name, c) ==
    LET at == {i \in 1..Len(focusPrimitives) : focusPrimitives[i].Key = name}
        i  == CHOOSE i \in at : \A j \in at : i <= j
    IN  /\ at # {}
        /\ focus' = focusPrimitives[i].Primitive
        /\ currentFocusIndex' = i - 1
        /\ Done(c)
        /\ UNCHANGED <<focusPrimitives, app, modeV, detailV, metaPanel, keysV,
                       helpServerInfoPanel, outputPanel, cmdV>>

\* --------------------------------------------- handlers of the primitives
\* lines 315-334, after the "processing" message is sent
CommandDoneRest(n, cmdText, c) ==
    /\ locked' = TRUE
    /\ cmdGo' = Append(cmdGo, [src |-> n, cmdText |-> cmdText])
    /\ commandFormText' = ""
    /\ Done(c)

\* CommandDone without lines 295-311: the lock is not looked at.
CommandDoneNoLock(n, c) ==
    /\ accepted' = Append(accepted, n)
    /\ IF CanSend(c)
       THEN CommandDoneRest(n, commandFormText,
                    Append(c, OutputMessage("orange", "processing", n)))
       ELSE /\ WaitSend(c, OutputMessage("orange", "processing", n),
                        "processing", "", commandFormText)
            /\ UNCHANGED <<locked, cmdGo, commandFormText>>
    /\ UNCHANGED <<ringV, app, modeV, detailV, metaPanel, keysV,
                   helpServerInfoPanel, outputPanel, commandResultPanel,
                   alertPage, rejected, executed>>

\* CommandDone whose refusal also releases the lock.
CommandDoneRejectUnlocks(n, c) ==
    IF locked
    THEN /\ alertPage' = TRUE
         /\ focus' = IF "commandPanel" \in Range(rightPanel) THEN "modal" ELSE focus
         /\ rejected' = rejected \cup {n}
         /\ locked' = FALSE
         /\ Done(c)
         /\ UNCHANGED <<focusPrimitives, currentFocusIndex, app, modeV, detailV,
                        metaPanel, keysV, helpServerInfoPanel, outputPanel,
                        commandFormText, commandResultPanel, cmdGo,
                        accepted, executed>>
    ELSE CommandDoneNoLock(n, c)

\* DoneFunc of the command input, key Enter.  n is the number of the key
\* event, which names the submission.
CommandDone(n, c) ==
    IF locked
    THEN \* the alert page goes on top; the page stack hands it the focus
         \* when the focus is inside the mounted layout
         /\ alertPage' = TRUE
         /\ focus' = IF "commandPanel" \in Range(rightPanel) THEN "modal" ELSE focus
         /\ rejected' = rejected \cup {n}
         /\ Done(c)
         /\ UNCHANGED <<focusPrimitives, currentFocusIndex, app, modeV, detailV,
                        metaPanel, keysV, helpServerInfoPanel, outputPanel,
                        locked, commandFormText, commandResultPanel, cmdGo,
                        accepted, executed>>
    ELSE /\ accepted' = Append(accepted, n)
         /\ IF CanSend(c)
            THEN CommandDoneRest(n, commandFormText,
                    Append(c, OutputMessage("orange", "processing", n)))
            ELSE /\ WaitSend(c, OutputMessage("orange", "processing", n),
                             "processing", "", commandFormText)
                 /\ UNCHANGED <<locked, cmdGo, commandFormText>>
         /\ UNCHANGED <<ringV, app, modeV, detailV, metaPanel, keysV,
                        helpServerInfoPanel, outputPanel, commandResultPanel,
                        alertPage, rejected, executed>>

\* the OK button of the alert
AlertDone(c) ==
    /\ alertPage' = FALSE
    /\ focus' = "commandFormPanel"
    /\ Done(c)
    /\ UNCHANGED <<focusPrimitives, currentFocusIndex, app, modeV, detailV,
                   metaPanel, keysV, helpServerInfoPanel, outputPanel, locked,
                   commandFormText, commandResultPanel, cmdGo, accepted,
                   rejected, executed>>

CmdTexts == {"PING"}

\* typing into the command input
CommandType(c) ==
    /\ commandFormText' \in CmdTexts
    /\ Done(c)
    /\ UNCHANGED <<ringV, app, modeV, detailV, metaPanel, keysV,
                   helpServerInfoPanel, outputPanel, locked, commandResultPanel,
                   alertPage, cmdGo, accepted, rejected, executed>>

\* DoneFunc of the search input, key Enter: Scan or Keys is called
SearchDone(n, c) ==
    /\ CallStore("search", "", n, c)
    /\ UNCHANGED <<ringV, app, modeV, detailV, metaPanel, keysV,
                   helpServerInfoPanel, outputPanel, cmdV>>

\* the selected-handler of a key item: Type is called
KeySelected(key, n, c) ==
    /\ CallStore("select", key, n, c)
    /\ UNCHANGED <<ringV, app, modeV, detailV, metaPanel, keysV,
                   helpServerInfoPanel, outputPanel, cmdV>>

\* the selected-handler of a hash field item: HGet is called
HashItemSelected(k, n, c) ==
    /\ CallStore("hget", k, n, c)
    /\ UNCHANGED <<ringV, app, modeV, detailV, metaPanel, keysV,
                   helpServerInfoPanel, outputPanel, cmdV>>

Ignored(c) ==
    /\ Done(c)
    /\ UNCHANGED <<ringV, app, modeV, detailV, metaPanel, keysV,
                   helpServerInfoPanel, outputPanel, cmdV>>

\* The event loop passes an event the capture returned to the primitive p
\* that held the focus when the event arrived.
InputHandler(k, p, n, c) ==
    CASE k = "Enter" /\ p = "commandFormPanel" -> CommandDone(n, c)
      [] k = "Enter" /\ p = "searchPanel" -> SearchDone(n, c)
      [] k = "Enter" /\ p = "keyItemsPanel" /\ keyItemsPanel # <<>> ->
            \E i \in 1..Len(keyItemsPanel) : KeySelected(keyItemsPanel[i].key, n, c)
      [] k = "Enter" /\ p = "mainHashView" /\ mainHashView.items # <<>> ->
            \E i \in 1..Len(mainHashView.items) :
                HashItemSelected(mainHashView.items[i].field, n, c)
      [] k = "Enter" /\ p = "modal" -> AlertDone(c)
      [] k = "Rune" /\ p = "commandFormPanel" -> CommandType(c)
      [] OTHER -> Ignored(c)

\* The function given to SetInputCapture, after the debug message: resolve
\* the key and dispatch on the action name.
InputCapture(k, n, c) ==
    \E name \in SearchKey(k) :
        CASE name = "switch_focus" -> SwitchFocus(c)
          [] name = "quit" -> Quit(c)
          [] name = "command" -> Command(c)
          [] OTHER ->
               IF \E i \in 1..Len(focusPrimitives) : focusPrimitives[i].Key = name
               THEN JumpFocus(name, c)
               ELSE InputHandler(k, focus, n, c)

\* ----------------------------------------------------- the store's replies
\* The store is an external collaborator: every call either fails or
\* returns a value of these small sets.
KeyTypes == {"string", "list", "set", "zset", "hash", "stream"}
SupportedTypes == {"string", "list", "set", "zset", "hash"}
ScanResults == {<<"a">>}
TTLResults == {"-1s"}
GetResults == {"hello"}
ListResults == {<<"x", "y">>}
ZResults == {<<[Member |-> "x", Score |-> 1]>>}
HKeysResults == {<<"f", "g">>}
HGetResults == {"v"}
ExecuteResults == {"PONG"}
\* RedisServerInfo(config, client) returns (info, err)
RedisServerInfoResults == {[info |-> "info", err |-> FALSE], [info |-> "", err |-> TRUE]}

ListRows(values) == [i \in 1..Len(values) |-> [main |-> <<i, values[i]>>, secondary |-> ""]]
ZRows(values) ==
    [i \in 1..Len(values) |->
        [main |-> <<i, values[i].Member>>, secondary |-> <<"Score", values[i].Score>>]]
HashRows(hashKeys) ==
    [i \in 1..Len(hashKeys) |-> [main |-> <<i, hashKeys[i]>>, field |-> hashKeys[i]]]
KeyRows(keys) ==
    [i \in 1..Len(keys) |-> [main |-> keyItemsFormat(i - 1, keys[i]), key |-> keys[i]]]

\* ------------------------------------------------------ key selection
\* ResetRing whose filter of line 489 leaves out mainStringView.
ResetRingKeepString(ring) ==
    primitivesFilter(ring,
        [item \in Range(ring) |->
            item.Primitive \notin {"mainHashView", "mainListView"}])

\* ResetRing whose filter also drops the entry of the key list.
ResetRingDropsKeys(ring) ==
    primitivesFilter(ring,
        [item \in Range(ring) |->
            item.Primitive \notin DetailViews \cup {"keyItemsPanel"}])

\* lines 481-494: what the handler does between the TTL reply and the switch
ResetRing(ring) ==
    primitivesFilter(ring,
        [item \in Range(ring) |-> item.Primitive \notin DetailViews])

\* ResetMainPanel without lines 492-494: only the welcome screen goes.
ResetMainPanelWelcomeOnly(mp) ==
    [items  |-> SelectSeq(mp.items, LAMBDA x : x # "welcomeScreen"),
     border |-> FALSE]

ResetMainPanel(mp) ==
    [items  |-> SelectSeq(mp.items,
                    LAMBDA x : x \notin ({"welcomeScreen"} \cup DetailViews)),
     border |-> FALSE]

\* Type or TTL failed: lines 468-478
SelectFailEarly(key, n) ==
    \E r \in {"err_type", "err_ttl"} :
        /\ lastSelection' = [key |-> key, type |-> "", result |-> r, src |-> n]
        /\ IF CanSend(outputChan)
           THEN Done(Append(outputChan, OutputMessage("red", "errors", n)))
           ELSE /\ WaitSend(outputChan, OutputMessage("red", "errors", n),
                            "return", "", "")
        /\ UNCHANGED <<ringV, mainPanel, mainStringView, mainHashView,
                       mainListView, metaPanel>>

\* the views are reset, then the type-specific fetch fails: lines 481-558
SelectFailFetch(key, keyType, n) ==
    /\ keyType \in SupportedTypes
    /\ mainPanel' = ResetMainPanel(mainPanel)
    /\ mainHashView' = [items |-> <<>>]
    /\ mainStringView' = [mainStringView EXCEPT !.text = <<>>]
    /\ mainListView' = [items |-> <<>>, secondary |-> FALSE]
    /\ focusPrimitives' = ResetRing(focusPrimitives)
    /\ lastSelection' = [key |-> key, type |-> keyType, result |-> "err_fetch", src |-> n]
    /\ IF CanSend(outputChan)
       THEN Done(Append(outputChan, OutputMessage("red", "errors", n)))
       ELSE /\ WaitSend(outputChan, OutputMessage("red", "errors", n),
                        "return", "", "")
    /\ UNCHANGED <<currentFocusIndex, focus, metaPanel>>

\* the entries a type registers in the ring: lines 506, 519, 533, 551, 577-578
TypeEntries(keyType) ==
    CASE keyType = "string" ->
            <<primitiveKey("mainStringView", KeyID("key_string_value"))>>
      [] keyType \in {"list", "set", "zset"} ->
            <<primitiveKey("mainListView", KeyID("key_list_value"))>>
      [] keyType = "hash" ->
            <<primitiveKey("mainHashView", KeyID("key_hash")),
              primitiveKey("mainStringView", KeyID("key_string_value"))>>
      [] OTHER -> <<>>

\* the views a type adds to the main panel: lines 505, 518, 532, 550, 574-575
TypeViews(keyType) ==
    CASE keyType = "string" -> <<"mainStringView">>
      [] keyType \in {"list", "set", "zset"} -> <<"mainListView">>
      [] keyType = "hash" -> <<"mainHashView", "mainStringView">>
      [] OTHER -> <<>>

\* line 581, after the "query OK" message is sent
SelectRest(meta, c) ==
    /\ metaPanel' = meta
    /\ Done(c)

\* every fetch succeeds: lines 481-581
SelectOK(key, keyType, n) ==
    /\ mainPanel' = [ResetMainPanel(mainPanel) EXCEPT
                        !.items = @ \o TypeViews(keyType)]
    /\ \E result \in GetResults, values \in ListResults, zs \in ZResults,
          hashKeys \in HKeysResults :
          /\ mainStringView' =
                [mainStringView EXCEPT
                    !.text = IF keyType = "string" THEN <<" ", result>> ELSE <<>>]
          /\ mainListView' =
                CASE keyType \in {"list", "set"} ->
                        [items |-> ListRows(values), secondary |-> FALSE]
                  [] keyType = "zset" ->
                        [items |-> ZRows(zs), secondary |-> TRUE]
                  [] OTHER -> [items |-> <<>>, secondary |-> FALSE]
          /\ mainHashView' =
                [items |-> IF keyType = "hash" THEN HashRows(hashKeys) ELSE <<>>]
    /\ focusPrimitives' = ResetRing(focusPrimitives) \o TypeEntries(keyType)
    /\ lastSelection' = [key |-> key, type |-> keyType, result |-> "ok", src |-> n]
    /\ \E ttl \in TTLResults :
          IF CanSend(outputChan)
          THEN SelectRest(<<key, keyType, ttl>>,
                    Append(outputChan, OutputMessage("green", "query OK", n)))
          ELSE /\ WaitSend(outputChan, OutputMessage("green", "query OK", n),
                           "select_ok", "", <<key, keyType, ttl>>)
               /\ UNCHANGED metaPanel
    /\ UNCHANGED <<currentFocusIndex, focus>>

\* the store has answered the calls of a key selection
SelectReturn ==
    LET key == ui.arg
        n == ui.src
    IN  /\ \/ SelectFailEarly(key, n)
           \/ \E keyType \in SupportedTypes : SelectFailFetch(key, keyType, n)
           \/ \E keyType \in KeyTypes : SelectOK(key, keyType, n)
        /\ UNCHANGED <<app, modeV, keysV, helpServerInfoPanel, outputPanel, cmdV>>

\* lines 563-569
HGetReturn ==
    /\ \/ \E val \in HGetResults :
             /\ mainStringView' = [text |-> <<" ", val>>, title |-> <<"Value:", ui.arg>>]
             /\ Done(outputChan)
       \/ /\ IF CanSend(outputChan)
             THEN Done(Append(outputChan, OutputMessage("red", "errors", ui.src)))
             ELSE /\ WaitSend(outputChan, OutputMessage("red", "errors", ui.src),
                              "return", "", "")
          /\ UNCHANGED mainStringView
    /\ UNCHANGED <<ringV, app, modeV, mainPanel, mainHashView, mainListView,
                   lastSelection, metaPanel, keysV, helpServerInfoPanel,
                   outputPanel, cmdV>>

\* lines 369-379
SearchReturn ==
    /\ \/ \E keys \in ScanResults :
             /\ keyItemsPanel' = KeyRows(keys)
             /\ summaryPanel' = <<"Total matched", Len(keys)>>
             /\ Done(outputChan)
       \/ /\ IF CanSend(outputChan)
             THEN Done(Append(outputChan, OutputMessage("red", "errors", ui.src)))
             ELSE /\ WaitSend(outputChan, OutputMessage("red", "errors", ui.src),
                              "return", "", "")
          /\ UNCHANGED keysV
    /\ UNCHANGED <<ringV, app, modeV, detailV, metaPanel, helpServerInfoPanel,
                   outputPanel, cmdV>>

\* -------------------------------------------------- the command update
\* the command update without the deferred function: the lock is kept.
UnlockNever(c) ==
    /\ locked' = locked
    /\ Done(c)

\* the deferred function, lines 319-321
Unlock(c) ==
    /\ locked' = FALSE
    /\ Done(c)

\* lines 323-330: RedisExecute has answered
ExecuteReturn ==
    /\ \/ \E res \in ExecuteResults :
             /\ commandResultPanel' = <<res>>
             /\ IF CanSend(outputChan)
                THEN Unlock(Append(outputChan, OutputMessage("green", "succeed", ui.src)))
                ELSE /\ WaitSend(outputChan, OutputMessage("green", "succeed", ui.src),
                                 "unlock", "", "")
                     /\ UNCHANGED locked
       \/ /\ IF CanSend(outputChan)
             THEN Unlock(Append(outputChan, OutputMessage("red", "errors", ui.src)))
             ELSE /\ WaitSend(outputChan, OutputMessage("red", "errors", ui.src),
                              "unlock", "", "")
                  /\ UNCHANGED locked
          /\ UNCHANGED commandResultPanel
    /\ UNCHANGED <<ringV, app, modeV, detailV, metaPanel, keysV,
                   helpServerInfoPanel, outputPanel, commandFormText,
                   alertPage, cmdGo, accepted, rejected, executed>>

\* ------------------------------------------- status refresh and startup
\* line 247
TickerRest(info, c) ==
    /\ helpServerInfoPanel' = info
    /\ Done(c)

\* TickerInfoReturn without the test of line 243: the message is sent
\* whatever RedisServerInfo returned.
TickerInfoReturnAlwaysReports ==
    /\ \E r \in RedisServerInfoResults :
          /\ infoReply' = [src |-> ui.src, result |-> IF r.err THEN "err" ELSE "ok"]
          /\ IF CanSend(outputChan)
             THEN TickerRest(r.info,
                     Append(outputChan, OutputMessage("red", "errors", ui.src)))
             ELSE /\ WaitSend(outputChan, OutputMessage("red", "errors", ui.src),
                              "ticker_err", "", r.info)
                  /\ UNCHANGED helpServerInfoPanel
    /\ UNCHANGED <<ringV, app, modeV, detailV, metaPanel, keysV, outputPanel, cmdV>>

\* lines 242-247: RedisServerInfo has answered
TickerInfoReturn ==
    /\ \E r \in RedisServerInfoResults :
          /\ infoReply' = [src |-> ui.src, result |-> IF r.err THEN "err" ELSE "ok"]
          /\ IF r.err
             THEN (IF CanSend(outputChan)
                   THEN TickerRest(r.info,
                           Append(outputChan, OutputMessage("red", "errors", ui.src)))
                   ELSE /\ WaitSend(outputChan, OutputMessage("red", "errors", ui.src),
                                    "ticker_err", "", r.info)
                        /\ UNCHANGED helpServerInfoPanel)
             ELSE TickerRest(r.info, outputChan)
    /\ UNCHANGED <<ringV, app, modeV, detailV, metaPanel, keysV, outputPanel, cmdV>>

\* lines 209-211: the status text is set, Scan is called
StartupRest(info, c) ==
    /\ helpServerInfoPanel' = info
    /\ CallStore("startup_scan", "", 0, c)

\* lines 204-211: RedisServerInfo has answered
StartupInfoReturn ==
    /\ \E r \in RedisServerInfoResults :
          /\ infoReply' = [src |-> ui.src, result |-> IF r.err THEN "err" ELSE "ok"]
          /\ IF r.err
             THEN (IF CanSend(outputChan)
                   THEN StartupRest(r.info,
                           Append(outputChan, OutputMessage("red", "errors: info", 0)))
                   ELSE /\ WaitSend(outputChan, OutputMessage("red", "errors: info", 0),
                                    "startup_err", "", r.info)
                        /\ UNCHANGED helpServerInfoPanel)
             ELSE StartupRest(r.info, outputChan)
    /\ UNCHANGED <<ringV, app, modeV, detailV, metaPanel, keysV, outputPanel, cmdV>>

\* lines 211-223: Scan has answered
StartupScanReturn ==
    /\ \/ \E keys \in ScanResults :
             /\ summaryPanel' = <<"Total matched", Len(keys)>>
             /\ keyItemsPanel' = keyItemsPanel \o KeyRows(keys)
             /\ focus' = "keyItemsPanel"
             /\ Done(outputChan)
       \/ /\ IF CanSend(outputChan)
             THEN Done(Append(outputChan, OutputMessage("red", "errors: scan", 0)))
             ELSE /\ WaitSend(outputChan, OutputMessage("red", "errors: scan", 0),
                              "return", "", "")
          /\ UNCHANGED <<keysV, focus>>
    /\ UNCHANGED <<focusPrimitives, currentFocusIndex, app, modeV, detailV,
                   metaPanel, helpServerInfoPanel, outputPanel, cmdV>>

\* ================================================================ actions
\* Start, lines 202-256: the two goroutines are spawned, the page stack
\* becomes the root and holds the focus, the event loop runs.
Start ==
    /\ app = "new"
    /\ app' = "running"
    /\ startupGo' = "spawned"
    /\ drain' = [pc |-> "select", f |-> "", out |-> <<>>, src |-> 0]
    /\ focus' = "pages"
    /\ UNCHANGED <<focusPrimitives, currentFocusIndex, modeV, detailV, metaPanel,
                   keysV, helpServerInfoPanel, outputPanel, cmdV, outputChan,
                   updates, ui, countV, ghostV>>

Update(f, out, src, cmdText) == [f |-> f, out |-> out, src |-> src, cmdText |-> cmdText]

\* QueueUpdateDraw: the function is appended to the toolkit's queue; the
\* caller waits while the queue is full.  A goroutine that finds room queues
\* in the same step as the step that made it call QueueUpdateDraw (nothing
\* else reads its local state in between); one that finds the queue full is
\* left waiting with its update in hand.
CanQueue == Len(updates) < QueueSize

\* line 203: go gli.app.QueueUpdateDraw(...)
StartupGoroutine ==
    /\ app = "running"
    /\ startupGo = "spawned"
    /\ CanQueue
    /\ updates' = Append(updates, Update("startup", <<>>, 0, ""))
    /\ startupGo' = "done"
    /\ UNCHANGED <<ringV, app, modeV, detailV, metaPanel, keysV,
                   helpServerInfoPanel, outputPanel, cmdV, outputChan, ui, drain,
                   countV, ghostV>>

\* a command goroutine that runs the command itself instead of queueing it
CommandGoroutineDirect ==
    /\ app = "running"
    /\ \E i \in 1..Len(cmdGo), res \in ExecuteResults :
          /\ commandResultPanel' = <<res>>
          /\ executed' = Append(executed, cmdGo[i].src)
          /\ cmdGo' = SubSeq(cmdGo, 1, i - 1) \o SubSeq(cmdGo, i + 1, Len(cmdGo))
    /\ locked' = FALSE
    /\ UNCHANGED <<ringV, app, modeV, detailV, metaPanel, keysV,
                   helpServerInfoPanel, outputPanel, commandFormText,
                   alertPage, accepted, rejected, updates,
                   outputChan, ui, drain, startupGo, countV, ghostV>>

\* lines 317-332: a command goroutine queues its update
CommandGoroutine ==
    /\ app = "running"
    /\ CanQueue
    /\ \E i \in 1..Len(cmdGo) :
          /\ updates' = Append(updates, Update("command", <<>>, cmdGo[i].src, cmdGo[i].cmdText))
          /\ cmdGo' = SubSeq(cmdGo, 1, i - 1) \o SubSeq(cmdGo, i + 1, Len(cmdGo))
    /\ UNCHANGED <<ringV, app, modeV, detailV, metaPanel, keysV,
                   helpServerInfoPanel, outputPanel, locked, commandFormText,
                   commandResultPanel, alertPage, accepted, rejected, executed,
                   outputChan, ui, drain, startupGo, countV, ghostV>>

DrainSelect == [pc |-> "select", f |-> "", out |-> <<>>, src |-> 0]

\* a QueueUpdateDraw that gives up when the queue is full
DrainQueueUpdateDrop(u) ==
    IF CanQueue
    THEN /\ updates' = Append(updates, u)
         /\ drain' = DrainSelect
    ELSE /\ drain' = DrainSelect
         /\ UNCHANGED updates

\* the drain loop calls QueueUpdateDraw with the update u
DrainQueueUpdate(u) ==
    IF CanQueue
    THEN /\ updates' = Append(updates, u)
         /\ drain' = DrainSelect
    ELSE /\ drain' = [pc |-> "queue", f |-> u.f, out |-> u.out, src |-> u.src]
         /\ UNCHANGED updates

\* lines 232-239: case out := <-gli.outputChan
DrainReceive ==
    /\ app = "running"
    /\ drain.pc = "select"
    /\ outputChan # <<>>
    /\ outputChan' = Tail(outputChan)
    /\ DrainQueueUpdate(Update("output", <<Head(outputChan)>>, 0, ""))
    /\ UNCHANGED <<ringV, app, modeV, detailV, metaPanel, keysV,
                   helpServerInfoPanel, outputPanel, cmdV, ui,
                   startupGo, countV, ghostV>>

\* lines 240-248: case <-ticker.C.  The 30 second ticker has fired and the
\* loop, back at its select, takes the tick.
DrainTick ==
    /\ app = "running"
    /\ drain.pc = "select"
    /\ keyCount + tickCount < MaxEvents
    /\ tickCount' = tickCount + 1
    /\ DrainQueueUpdate(Update("ticker", <<>>, 0 - (tickCount + 1), ""))
    /\ UNCHANGED <<ringV, app, modeV, detailV, metaPanel, keysV,
                   helpServerInfoPanel, outputPanel, cmdV, outputChan, ui,
                   startupGo, keyCount, config, ghostV>>

\* lines 234 and 241: the queue has room again for the waiting drain loop
DrainQueue ==
    /\ app = "running"
    /\ drain.pc = "queue"
    /\ CanQueue
    /\ updates' = Append(updates, Update(drain.f, drain.out, drain.src, ""))
    /\ drain' = DrainSelect
    /\ UNCHANGED <<ringV, app, modeV, detailV, metaPanel, keysV,
                   helpServerInfoPanel, outputPanel, cmdV, outputChan, ui,
                   startupGo, countV, ghostV>>

\* what a step of the event loop has put on outputChan
Added == SubSeq(outputChan', Len(outputChan) + 1, Len(outputChan'))

\* The event loop takes a key event: the debug message first (line 151),
\* then the capture.
KeyEvent(k) ==
    /\ app = "running"
    /\ ui.pc = "idle"
    /\ keyCount + tickCount < MaxEvents
    /\ keyCount' = keyCount + 1
    /\ IF config.Debug
          THEN (IF CanSend(outputChan)
                THEN InputCapture(k, keyCount + 1,
                        Append(outputChan,
                               OutputMessage("default", "Key pressed", keyCount + 1)))
                ELSE /\ WaitSend(outputChan,
                                 OutputMessage("default", "Key pressed", keyCount + 1),
                                 "debug", k, "")
                     /\ UNCHANGED <<ringV, app, modeV, detailV, metaPanel, keysV,
                                    helpServerInfoPanel, outputPanel, cmdV>>)
          ELSE InputCapture(k, keyCount + 1, outputChan)
    /\ sent' = sent \o Added
    /\ UNCHANGED <<updates, drain, startupGo, tickCount, config, event, infoReply,
                   switchRun>>

\* lines 236-237: the update of the drain loop appends to the feed
OutputUpdate(u) ==
    /\ outputPanel' = Append(outputPanel, u.out[1])
    /\ Done(outputChan)
    /\ UNCHANGED <<ringV, app, modeV, detailV, metaPanel, keysV,
                   helpServerInfoPanel, cmdV>>

\* line 323: the command update calls RedisExecute
CommandUpdate(u) ==
    /\ executed' = Append(executed, u.src)
    /\ CallStore("execute", u.cmdText, u.src, outputChan)
    /\ UNCHANGED <<ringV, app, modeV, detailV, metaPanel, keysV,
                   helpServerInfoPanel, outputPanel, locked, commandFormText,
                   commandResultPanel, alertPage, cmdGo, accepted, rejected>>

\* lines 204 and 242: the startup and ticker updates call RedisServerInfo
InfoUpdate(u) ==
    /\ CallStore(IF u.f = "startup" THEN "startup_info" ELSE "ticker_info", "", u.src,
                 outputChan)
    /\ UNCHANGED <<ringV, app, modeV, detailV, metaPanel, keysV,
                   helpServerInfoPanel, outputPanel, cmdV>>

\* The event loop takes the next queued update and runs it.
ApplyUpdate ==
    /\ app = "running"
    /\ ui.pc = "idle"
    /\ updates # <<>>
    /\ updates' = Tail(updates)
    /\ LET u == Head(updates)
       IN  CASE u.f = "output" -> OutputUpdate(u)
             [] u.f = "command" -> CommandUpdate(u)
             [] OTHER -> InfoUpdate(u)
    /\ UNCHANGED <<drain, startupGo, countV, event, sent, infoReply, switchRun>>

\* The store answers the call the event loop waits for.
StoreReturn ==
    /\ app = "running"
    /\ ui.pc = "call"
    /\ CASE ui.op = "select" -> SelectReturn /\ UNCHANGED infoReply
         [] ui.op = "hget" -> HGetReturn /\ UNCHANGED infoReply
         [] ui.op = "search" -> SearchReturn /\ UNCHANGED infoReply
         [] ui.op = "execute" -> ExecuteReturn /\ UNCHANGED infoReply
         [] ui.op = "ticker_info" -> TickerInfoReturn
         [] ui.op = "startup_info" -> StartupInfoReturn
         [] ui.op = "startup_scan" -> StartupScanReturn /\ UNCHANGED infoReply
    /\ sent' = sent \o Added
    /\ UNCHANGED <<updates, drain, startupGo, countV, event, switchRun>>

\* The drain loop has made room in outputChan: the send the event loop
\* waits at completes and the handler goes on.
SendOutput ==
    /\ app = "running"
    /\ ui.pc = "send"
    /\ Len(outputChan) < ChanCap
    /\ LET c == Append(outputChan, ui.out[1])
       IN  CASE ui.op = "debug" -> InputCapture(ui.key, ui.src, c)
             [] ui.op = "processing" ->
                  /\ CommandDoneRest(ui.src, ui.arg, c)
                  /\ UNCHANGED <<ringV, app, modeV, detailV, metaPanel, keysV,
                                 helpServerInfoPanel, outputPanel,
                                 commandResultPanel, alertPage, accepted,
                                 rejected, executed>>
             [] ui.op = "unlock" ->
                  /\ Unlock(c)
                  /\ UNCHANGED <<ringV, app, modeV, detailV, metaPanel, keysV,
                                 helpServerInfoPanel, outputPanel, commandFormText,
                                 commandResultPanel, alertPage, cmdGo, accepted,
                                 rejected, executed>>
             [] ui.op = "select_ok" ->
                  /\ SelectRest(ui.arg, c)
                  /\ UNCHANGED <<ringV, app, modeV, detailV, keysV,
                                 helpServerInfoPanel, outputPanel, cmdV>>
             [] ui.op = "ticker_err" ->
                  /\ TickerRest(ui.arg, c)
                  /\ UNCHANGED <<ringV, app, modeV, detailV, metaPanel, keysV,
                                 outputPanel, cmdV>>
             [] ui.op = "startup_err" ->
                  /\ StartupRest(ui.arg, c)
                  /\ UNCHANGED <<ringV, app, modeV, detailV, metaPanel, keysV,
                                 outputPanel, cmdV>>
             [] ui.op = "return" ->
                  /\ Done(c)
                  /\ UNCHANGED <<ringV, app, modeV, detailV, metaPanel, keysV,
                                 helpServerInfoPanel, outputPanel, cmdV>>
    /\ sent' = sent \o Added
    /\ UNCHANGED <<updates, drain, startupGo, countV, event, infoReply, switchRun>>

Next ==
    \/ Start
    \/ StartupGoroutine
    \/ CommandGoroutine
    \/ DrainReceive
    \/ DrainTick
    \/ DrainQueue
    \/ \E k \in EventKeys : KeyEvent(k)
    \/ ApplyUpdate
    \/ StoreReturn
    \/ SendOutput

Spec == Init /\ [][Next]_vars

\* The goroutines, the event loop and the store keep running: a goroutine
\* that can queue its update does, the drain loop that can receive or queue
\* does, the event loop applies a queued update and completes a send when it
\* can, and every store call returns.  Key presses and ticks are left to the
\* environment.
Fairness ==
    /\ WF_vars(StartupGoroutine)
    /\ WF_vars(CommandGoroutine)
    /\ WF_vars(DrainReceive)
    /\ WF_vars(DrainQueue)
    /\ WF_vars(ApplyUpdate)
    /\ WF_vars(StoreReturn)
    /\ WF_vars(SendOutput)

SpecFair == Spec /\ Fairness

\* The key-binding table on its own: SearchKey is evaluated on a key code
\* and the result is recorded in event.
ResolveKey(k) ==
    /\ keyCount < MaxEvents
    /\ keyCount' = keyCount + 1
    /\ \E name \in SearchKey(k) : event' = [key |-> k, name |-> name]
    /\ UNCHANGED <<ringV, app, modeV, detailV, metaPanel, keysV,
                   helpServerInfoPanel, outputPanel, cmdV, outputChan, updates,
                   ui, drain, startupGo, tickCount, config, sent, infoReply,
                   switchRun>>

NextKeyBindings == \E k \in BoundCodes \cup {"Enter", "Rune"} : ResolveKey(k)

SpecKeyBindings == Init /\ [][NextKeyBindings]_vars

\* The switch_focus handler on its own: the ring is one the program builds
\* (the five entries of construction, then the entries of the selected key's
\* type), the cursor is anywhere in it, and the only key pressed is Tab.
BaseRing ==
    << primitiveKey("outputPanel", KeyID("output")),
       primitiveKey("commandFormPanel", KeyID("command_focus")),
       primitiveKey("commandResultPanel", KeyID("command_result")),
       primitiveKey("searchPanel", KeyID("search")),
       primitiveKey("keyItemsPanel", KeyID("keys")) >>

\* the state after startup and, when keyType is a type, after the key "a" of
\* that type was selected and its "query OK" message was shown
InitSwitchFocus ==
    /\ config = [Debug |-> FALSE]
    /\ app = "running"
    /\ \E keyType \in SupportedTypes \cup {""} :
          LET selected == keyType # ""
              shown == IF selected
                       THEN <<OutputMessage("green", "query OK", 1)>> ELSE <<>>
          IN  /\ focusPrimitives = BaseRing \o TypeEntries(keyType)
              /\ mainPanel = IF selected
                             THEN [items |-> TypeViews(keyType), border |-> FALSE]
                             ELSE [items |-> <<"welcomeScreen">>, border |-> TRUE]
              /\ \E result \in GetResults, values \in ListResults, zs \in ZResults,
                    hashKeys \in HKeysResults :
                    /\ mainStringView =
                          [text |-> IF keyType = "string" THEN <<" ", result>> ELSE <<>>,
                           title |-> "Value"]
                    /\ mainListView =
                          CASE keyType \in {"list", "set"} ->
                                  [items |-> ListRows(values), secondary |-> FALSE]
                            [] keyType = "zset" ->
                                  [items |-> ZRows(zs), secondary |-> TRUE]
                            [] OTHER -> [items |-> <<>>, secondary |-> FALSE]
                    /\ mainHashView =
                          [items |-> IF keyType = "hash" THEN HashRows(hashKeys) ELSE <<>>]
              /\ \E ttl \in TTLResults :
                    metaPanel = IF selected THEN <<"a", keyType, ttl>> ELSE <<>>
              /\ lastSelection =
                    IF selected
                    THEN [key |-> "a", type |-> keyType, result |-> "ok", src |-> 1]
                    ELSE [key |-> "", type |-> "", result |-> "none", src |-> 0]
              /\ keyCount = IF selected THEN 1 ELSE 0
              /\ outputPanel = shown
              /\ sent = shown
    /\ currentFocusIndex \in 0..(Len(focusPrimitives) - 1)
    /\ focus = focusPrimitives[currentFocusIndex + 1].Primitive
    /\ commandMode = FALSE
    /\ rightPanel = redrawRightPanel(<<>>, "mainPanel")
    /\ \E keys \in ScanResults :
          /\ keyItemsPanel = KeyRows(keys)
          /\ summaryPanel = <<"Total matched", Len(keys)>>
    /\ \E r \in RedisServerInfoResults :
          /\ ~r.err
          /\ helpServerInfoPanel = r.info
    /\ locked = FALSE
    /\ commandFormText = ""
    /\ commandResultPanel = <<>>
    /\ alertPage = FALSE
    /\ outputChan = <<>>
    /\ updates = <<>>
    /\ ui = UIIdle
    /\ drain = [pc |-> "select", f |-> "", out |-> <<>>, src |-> 0]
    /\ startupGo = "done"
    /\ cmdGo = <<>>
    /\ tickCount = 0
    /\ event = [key |-> "", name |-> ""]
    /\ accepted = <<>>
    /\ rejected = {}
    /\ executed = <<>>
    /\ commandToggles = 0
    /\ infoReply = [src |-> 0, result |-> "ok"]
    /\ switchRun = [from |-> currentFocusIndex, presses |-> 0]

\* lines 153-165 for a key bound to switch_focus, with debug off
PressSwitchFocus(k) ==
    /\ app = "running"
    /\ ui.pc = "idle"
    /\ ~config.Debug
    /\ switchRun.presses < MaxSwitches
    /\ switchRun' = [switchRun EXCEPT !.presses = @ + 1]
    /\ "switch_focus" \in SearchKey(k)
    /\ SwitchFocus(outputChan)
    /\ UNCHANGED <<updates, drain, startupGo, countV, event, sent, infoReply>>

NextSwitchFocus == \E k \in BoundCodes : PressSwitchFocus(k)

SpecSwitchFocus == InitSwitchFocus /\ [][NextSwitchFocus]_vars

\* ============================================================= properties
\* ------------------------------------------------- read off the state
\* the submissions whose command is on its way: accepted and waiting to
\* send "processing", held by a command goroutine, queued as an update,
\* running against the store, or waiting to send the completion message
InFlight ==
    LET queued == SelectSeq(updates, LAMBDA u : u.f = "command")
    IN  [i \in 1..Len(cmdGo) |-> cmdGo[i].src]
          \o [i \in 1..Len(queued) |-> queued[i].src]
          \o (IF \/ ui.pc = "call" /\ ui.op = "execute"
                 \/ ui.pc = "send" /\ ui.op \in {"processing", "unlock"}
              THEN <<ui.src>> ELSE <<>>)

\* the ring entries of the detail views, in ring order
DetailEntries(ring) == SelectSeq(ring, LAMBDA item : item.Primitive \in DetailViews)

\* the detail views mounted in the key-detail panel, in order
DetailItems(mp) == SelectSeq(mp.items, LAMBDA x : x \in DetailViews)

\* the messages a step of the event loop reports: those it has put on
\* outputChan and the one it is left waiting to send
Reported == Added \o (IF ui'.pc = "send" THEN ui'.out ELSE <<>>)

\* the step in which the store's replies to a key selection are handled
SelectionHandled ==
    /\ ui.pc = "call"
    /\ ui.op = "select"
    /\ ui' # ui
    /\ lastSelection'.src = ui.src

\* the messages on their way from outputChan to the feed, oldest first
InTransit ==
    LET queued == SelectSeq(updates, LAMBDA u : u.f = "output")
    IN  [i \in 1..Len(queued) |-> queued[i].out[1]]
          \o (IF drain.pc = "queue" /\ drain.f = "output" THEN drain.out ELSE <<>>)
          \o outputChan

\* the "processing" and completion messages of the accepted submissions
CommandMessages(msgs) ==
    SelectSeq(msgs, LAMBDA m : /\ m.src \in Range(accepted)
                               /\ m.Message \in {"processing", "succeed", "errors"})

IsPrefix(a, b) == Len(a) <= Len(b) /\ a = SubSeq(b, 1, Len(a))

\* ---------------------------------------------------------------- C1
\* C1: at most one ad-hoc command is in flight at any time, and a submission
\* made while the lock is held (a rejected one) is never accepted, never
\* handed to a goroutine or queued, and never run against the store; no
\* accepted submission is run twice.
C1_OneCommandInFlight ==
    /\ Len(InFlight) <= 1
    /\ \A n \in rejected :
          /\ n \notin Range(accepted)
          /\ n \notin Range(InFlight)
          /\ n \notin Range(executed)
    /\ Range(executed) \subseteq Range(accepted)
    /\ \A i, j \in 1..Len(executed) : executed[i] = executed[j] => i = j

\* a submission was rejected while another was in flight, and that other one
\* has since run and released the lock
C1_RejectedWhileRunning ==
    /\ rejected # {}
    /\ Len(executed) = 1
    /\ InFlight = <<>>
    /\ ~locked

C3_Registered(keyType) ==
    CASE keyType = "string" ->
            <<[Primitive |-> "mainStringView", Key |-> "key_string_value"]>>
      [] keyType = "hash" ->
            <<[Primitive |-> "mainHashView", Key |-> "key_hash"],
              [Primitive |-> "mainStringView", Key |-> "key_string_value"]>>
      [] OTHER ->
            <<[Primitive |-> "mainListView", Key |-> "key_list_value"]>>

C3_RingHoldsLastType ==
    (lastSelection.result = "ok" /\ lastSelection.type \in SupportedTypes) =>
        DetailEntries(focusPrimitives) = C3_Registered(lastSelection.type)

\* a list key has been selected while the meta surface still shows the
\* string key selected before it
C3_ListAfterString ==
    /\ lastSelection.result = "ok"
    /\ lastSelection.type = "list"
    /\ metaPanel # <<>>
    /\ metaPanel[2] = "string"

\* ---------------------------------------------------------------- C4
\* C4: a key selection whose type, TTL or value fetch fails reports exactly
\* one error message and leaves the detail views, the views mounted in the
\* key-detail panel and the focus ring exactly as they were.
C4_FailureLeavesDetail ==
    [][(SelectionHandled /\ lastSelection'.result # "ok") =>
          /\ Len(Reported) = 1
          /\ Reported[1].Color = "red"
          /\ DetailItems(mainPanel') = DetailItems(mainPanel)
          /\ UNCHANGED <<focusPrimitives, mainStringView, mainHashView,
                         mainListView>>]_vars

C6_SearchKeyRoundTrip ==
    \A a \in DOMAIN keyBindings :
        event.key \in Range(Keys(a)) => event.name = KeyID(a)

\* ---------------------------------------------------------------- C7
\* nothing is on its way: the event loop is idle, no update is queued,
\* outputChan is empty, no goroutine holds a command or an update
Quiescent ==
    /\ ui.pc = "idle"
    /\ updates = <<>>
    /\ outputChan = <<>>
    /\ drain.pc # "queue"
    /\ cmdGo = <<>>

StoreCallInProgress ==
    /\ ui.pc = "call"
    /\ ui.op \in {"execute", "ticker_info", "startup_info", "startup_scan"}

\* C8: while a store call of a command, of the status refresh or of the
\* startup load is in progress, the event loop can take a key event and can
\* apply a queued update.
C8_UIFreeDuringStoreCall ==
    StoreCallInProgress =>
        /\ keyCount + tickCount < MaxEvents => ENABLED KeyEvent("Tab")
        /\ updates # <<>> => ENABLED ApplyUpdate

Count(seq, x) == Len(SelectSeq(seq, LAMBDA y : y = x))

\* C10: exactly one of mainPanel and commandPanel is mounted in rightPanel,
\* once; commandPanel is the one iff commandMode; commandMode is true iff
\* the number of "command" actions so far is odd.
C10_OneCenterPanel ==
    /\ Count(rightPanel, "mainPanel") + Count(rightPanel, "commandPanel") = 1
    /\ commandMode <=> Count(rightPanel, "commandPanel") = 1
    /\ commandMode <=> commandToggles = 1

\* command mode was turned on and off again: the key-detail panel is back
\* and the focus is where turning it off puts it
C10_ToggledTwice ==
    /\ ~commandMode
    /\ Count(rightPanel, "mainPanel") = 1
    /\ focus = "searchPanel"
    /\ currentFocusIndex = 0

\* --------------------------------------------------------------- C11
\* C11: the step in which a submission is refused because the lock is held
\* puts up the alert and changes nothing else of the command: the lock, the
\* running command (goroutine, queued update, accepted and executed
\* submissions), the input text, the result view and the feed stay as they
\* are, and the step reports nothing but the debug message of its key
\* press; no command message is ever sent for a refused submission.
C11_RejectionOnlyAlerts ==
    /\ [](\A i \in 1..Len(sent) :
             sent[i].src \in rejected => sent[i].Message = "Key pressed")
    /\ [][rejected' # rejected =>
            /\ alertPage'
            /\ \A i \in 1..Len(Reported) : Reported[i].Message = "Key pressed"
            /\ UNCHANGED <<locked, cmdGo, updates, accepted, executed,
                           commandFormText, commandResultPanel,
                           outputPanel>>]_vars

\* a submission has been refused: the alert is up and the lock still held
C11_AlertShown ==
    /\ rejected # {}
    /\ alertPage
    /\ locked

\* --------------------------------------------------------------- C12
\* a step of a status refresh whose RedisServerInfo call succeeds: the
\* drain loop takes the tick, the event loop takes the update, the store
\* answers and the text is set
RefreshStep ==
    \/ tickCount' # tickCount
    \/ ui.pc = "idle" /\ ui'.pc = "call" /\ ui'.op = "ticker_info"
    \/ /\ ui.pc = "call" /\ ui.op = "ticker_info" /\ ui' # ui
       /\ infoReply'.result = "ok"

\* C12: a status refresh that succeeds changes no UI state but the status
\* text: the feed, the focus ring, the cursor, the focus, commandMode, the
\* layout, the command lock and every other panel are left alone, no
\* message is sent and none is left waiting to be sent.
C12_RefreshOnlySetsStatus ==
    [][RefreshStep =>
          /\ ui'.pc = "send" => ui' = ui
          /\ UNCHANGED <<outputPanel, focusPrimitives, currentFocusIndex, focus,
                         commandMode, rightPanel, locked, mainPanel,
                         mainStringView, mainHashView, mainListView, metaPanel,
                         keyItemsPanel, summaryPanel, commandFormText,
                         commandResultPanel, alertPage, sent, outputChan>>]_vars

\* a tick has been taken and its update has run to the end, RedisServerInfo
\* having succeeded
C12_RefreshDone ==
    /\ tickCount = 1
    /\ ui.pc = "idle"
    /\ \A i \in 1..Len(updates) : updates[i].f # "ticker"
    /\ ~(drain.pc = "queue" /\ drain.f = "ticker")
    /\ infoReply = [src |-> -1, result |-> "ok"]

\* ---------------------------------------------------------------- C13
\* C13: with the ring unchanged, every switch_focus moves the cursor to
\* (cursor + 1) mod K, K the size of the ring, and focuses the entry there;
\* so after N presses the cursor is (start + N) mod K, and a number of
\* presses that is a multiple of K brings it back to where it started.
C13_SwitchFocusCycles ==
    /\ [](/\ currentFocusIndex =
                (switchRun.from + switchRun.presses) % Len(focusPrimitives)
          /\ switchRun.presses % Len(focusPrimitives) = 0
                => currentFocusIndex = switchRun.from
          /\ app = "running")
    /\ [][switchRun'.presses # switchRun.presses =>
            /\ currentFocusIndex' = (currentFocusIndex + 1) % Len(focusPrimitives)
            /\ focus' = focusPrimitives[currentFocusIndex' + 1].Primitive
            /\ focusPrimitives' = focusPrimitives]_vars

\* a full turn: as many presses as the ring has entries, from a cursor that
\* is not at the start of the ring
C13_FullTurn ==
    /\ switchRun.presses = Len(focusPrimitives)
    /\ switchRun.from > 0
    /\ currentFocusIndex = switchRun.from

\* ---------------------------------------------------------------- C14
\* a step of the input capture that moves the cursor or toggles command
\* mode, or the step in which the startup load fills the key list
FocusMoved ==
    \/ currentFocusIndex' # currentFocusIndex
    \/ commandToggles' # commandToggles
    \/ /\ ui.pc = "call" /\ ui.op = "startup_scan"
       /\ keyItemsPanel' # keyItemsPanel

\* C14: after switch_focus, a jump by action name, a toggle of command mode
\* and the startup load, the focused element is the ring entry at
\* currentFocusIndex; after command mode is toggled off that entry is the
\* search entry.
C14_FocusAtCursor ==
    [][FocusMoved =>
          /\ currentFocusIndex' < Len(focusPrimitives')
          /\ focus' = focusPrimitives'[currentFocusIndex' + 1].Primitive
          /\ (commandMode /\ ~commandMode') =>
                focusPrimitives'[currentFocusIndex' + 1].Key = KeyID("search")]_vars

\* ---------------------------------------------------------------- C15
\* RedisServerInfo has answered the refresh or the startup update with an
\* error
FetchFailed ==
    /\ ui.pc = "call" /\ ui.op \in {"ticker_info", "startup_info"} /\ ui' # ui
    /\ infoReply'.result = "err"

\* the update of a failed fetch goes on after its error message is sent
FetchFailedResumed ==
    /\ ui.pc = "send" /\ ui.op \in {"ticker_err", "startup_err"} /\ ui' # ui

\* C15: a failed status fetch, periodic or at startup, reports exactly one
\* error message and leaves the status text as it was.
C15_FailedFetchKeepsStatus ==
    [][/\ FetchFailed =>
             /\ Len(Reported) = 1
             /\ Reported[1].Color = "red"
       /\ (FetchFailed \/ FetchFailedResumed) =>
             helpServerInfoPanel' = helpServerInfoPanel]_vars

\* ---------------------------------------------------------------- C18
\* the event loop waits at a send on outputChan, which is full
UIBlockedSending == ui.pc = "send" /\ ~CanSend(outputChan)

\* the drain loop waits in QueueUpdateDraw, the update queue being full
DrainBlockedQueueing == drain.pc = "queue" /\ ~CanQueue

\* C18: the event loop is never blocked at a send on outputChan while the
\* drain loop, the only receiver of outputChan, is blocked handing an update
\* to the event loop.
C18_NoSendQueueDeadlock == ~(UIBlockedSending /\ DrainBlockedQueueing)

\* ---------------------------------------------------------------- C16
\* C16: unless the program is quit, every accepted submission is eventually
\* followed by the command state being idle again with that submission no
\* longer on its way, so that the next submission is accepted.
C16_AcceptedReturnsToIdle ==
    \A n \in 1..MaxEvents :
        (n \in Range(accepted)) ~>
            (app # "running" \/ (~locked /\ n \notin Range(InFlight)))

\* ---------------------------------------------------------------- C17
\* the state of the user interface: the ring and its cursor, the focus, the
\* command mode, the panels, the feed and the command lock
UIState ==
    <<focusPrimitives, currentFocusIndex, focus, commandMode, rightPanel,
      mainPanel, mainStringView, mainHashView, mainListView, metaPanel,
      keyItemsPanel, summaryPanel, helpServerInfoPanel, outputPanel, locked,
      commandFormText, commandResultPanel, alertPage>>

\* a step of the goroutine that runs the event loop: it sets the root and
\* enters the loop, takes a key event, takes the update at the head of the
\* queue, or goes on with the handler it is in
EventLoopStep ==
    \/ app = "new" /\ app' = "running"
    \/ keyCount' # keyCount
    \/ updates # <<>> /\ updates' = Tail(updates)
    \/ ui' # ui

\* C17: the state of the user interface changes only in steps of the event
\* loop - a key handler or a function taken from the update queue - and the
\* event loop runs one of them at a time: while a handler or an update
\* waits for the store or at a send, no key event is dispatched and no
\* other update is applied.  The goroutines and the drain loop only queue.
C17_UIStateOnEventLoop ==
    /\ [](ui.pc # "idle" =>
            /\ ~ENABLED ApplyUpdate
            /\ \A k \in EventKeys : ~ENABLED KeyEvent(k))
    /\ [][UIState' # UIState => EventLoopStep]_vars
    /\ [][(StartupGoroutine \/ CommandGoroutine \/ DrainReceive \/ DrainTick
             \/ DrainQueue) => UIState' = UIState]_vars

\* a command has gone the whole way: its goroutine queued the update, the
\* event loop ran it, the result is shown, the lock is free, and messages
\* of it have reached the feed through the drain loop
C17_CommandThroughQueue ==
    /\ executed # <<>>
    /\ commandResultPanel # <<>>
    /\ ~locked
    /\ outputPanel # <<>>
    /\ cmdGo = <<>>

\* ---------------------------------------------------------------- C19
\* the element p belongs to a panel that is mounted when the command mode is
\* mode and the key-detail panel holds items: the command input and result
\* are in the command panel, the detail views in the key-detail panel
MountedIn(p, mode, items) ==
    /\ p \in {"commandFormPanel", "commandResultPanel"} => mode
    /\ p \in DetailViews => (~mode /\ p \in Range(items))

\* a step of switch_focus or of a jump by action name that moves the cursor
SwitchOrJump ==
    /\ currentFocusIndex' # currentFocusIndex
    /\ commandToggles' = commandToggles

\* C19: switch_focus and a jump by action name give the focus only to an
\* element of a mounted panel: not to the command input or result while
\* command mode is off, not to a detail view while it is on.
C19_FocusOnlyMounted ==
    [][SwitchOrJump => MountedIn(focus', commandMode', mainPanel'.items)]_vars

\* ---------------------------------------------------------------- C20
\* C20: the ring always starts with the entries output, command_focus,
\* command_result, search, keys at positions 0 to 4 and holds only
\* detail-view entries after them; a step changes the ring only behind
\* position 4; the ring is never empty, the index switch_focus computes is
\* inside the ring, and the program never fails on it.
C20_BaseEntriesStay ==
    /\ [](/\ Len(focusPrimitives) >= 5
          /\ [i \in 1..5 |-> focusPrimitives[i].Key] =
                <<KeyID("output"), KeyID("command_focus"), KeyID("command_result"),
                  KeyID("search"), KeyID("keys")>>
          /\ SubSeq(focusPrimitives, 1, 5) = BaseRing
          /\ \A i \in 6..Len(focusPrimitives) :
                focusPrimitives[i].Primitive \in DetailViews
          /\ NextFocusIndex(currentFocusIndex, Len(focusPrimitives))
                \in 0..(Len(focusPrimitives) - 1)
          /\ app # "panic")
    /\ [][SubSeq(focusPrimitives', 1, 5) = SubSeq(focusPrimitives, 1, 5)]_vars

\* a hash key is selected, its two entries sit behind the base entries, and
\* switch_focus has moved the cursor into the ring of seven
C20_DetailBehindBase ==
    /\ lastSelection.result = "ok"
    /\ lastSelection.type = "hash"
    /\ Len(focusPrimitives) = 7
    /\ currentFocusIndex = 1
    /\ focus = "commandFormPanel"
====
